---- MODULE Spec2Model ----
(***************************************************************************)
(* A model of the Alpha Vantage client: src/client.rs (the Client and its  *)
(* request/response pipeline) and src/exchange_rate.rs (the exchange-rate  *)
(* parser).  Text that the parser inspects character by character (time    *)
(* zone, rate, date) is a sequence of one-character strings; tokens that   *)
(* are only passed along (function names, symbols, keys) are strings.      *)
(***************************************************************************)
EXTENDS Integers, Sequences, FiniteSets, TLC

VARIABLES client, pc, args, request, sent, response, body, parsed, result, trace

vars == <<client, pc, args, request, sent, response, body, parsed, result, trace>>

(***************************************************************************)
(* Bounds of the model.                                                    *)
(***************************************************************************)
\* number of calls issued concurrently on the one Client
NumCalls == 2

Calls == 1..NumCalls

(***************************************************************************)
(* Text helpers.                                                           *)
(***************************************************************************)
Digits == {"0", "1", "2", "3", "4", "5", "6", "7", "8", "9"}

DigitValue(ch) ==
    CASE ch = "0" -> 0 [] ch = "1" -> 1 [] ch = "2" -> 2 [] ch = "3" -> 3
      [] ch = "4" -> 4 [] ch = "5" -> 5 [] ch = "6" -> 6 [] ch = "7" -> 7
      [] ch = "8" -> 8 [] ch = "9" -> 9

AllDigits(s) == \A i \in 1..Len(s) : s[i] \in Digits

RECURSIVE DigitsValue(_)
DigitsValue(s) ==
    IF s = <<>> THEN 0
    ELSE DigitsValue(SubSeq(s, 1, Len(s) - 1)) * 10 + DigitValue(s[Len(s)])

\* sub occurs in s as a contiguous run of characters
Contains(s, sub) ==
    \E i \in 0..(Len(s) - Len(sub)) : SubSeq(s, i + 1, i + Len(sub)) = sub

(***************************************************************************)
(* deserialize::from_str for f64: str::parse::<f64>.  A float is a record  *)
(* [kind, neg, mant, exp]: kind "num" stands for (-1)^neg * mant * 10^-exp *)
(* with mant free of trailing decimal zeros, kind "inf" for an infinity    *)
(* and kind "nan" for NaN.                                                 *)
(***************************************************************************)
F64(kind, neg, mant, exp) == [kind |-> kind, neg |-> neg, mant |-> mant, exp |-> exp]

RECURSIVE Normalize(_, _)
Normalize(mant, exp) ==
    IF mant = 0 THEN <<0, 0>>
    ELSE IF exp > 0 /\ mant % 10 = 0 THEN Normalize(mant \div 10, exp - 1)
    ELSE <<mant, exp>>

DotPositions(s) == {i \in 1..Len(s) : s[i] = "."}

\* an unsigned decimal: digits, optionally one '.', at least one digit
ParseDecimal(s, neg) ==
    LET dots == DotPositions(s)
        dot  == IF dots = {} THEN Len(s) + 1 ELSE CHOOSE i \in dots : TRUE
        int  == SubSeq(s, 1, dot - 1)
        frac == SubSeq(s, dot + 1, Len(s))
        n    == Normalize(DigitsValue(int \o frac), Len(frac))
    IN  IF Cardinality(dots) <= 1 /\ AllDigits(int) /\ AllDigits(frac)
           /\ Len(int) + Len(frac) > 0
        THEN [ok |-> TRUE, value |-> F64("num", neg, n[1], n[2])]
        ELSE [ok |-> FALSE, value |-> F64("nan", FALSE, 0, 0)]

from_str(s) ==
    LET signed == s # <<>> /\ s[1] \in {"+", "-"}
        neg    == s # <<>> /\ s[1] = "-"
        rest   == IF signed THEN Tail(s) ELSE s
    IN  CASE rest = <<"i", "n", "f">> -> [ok |-> TRUE, value |-> F64("inf", neg, 0, 0)]
          [] rest = <<"N", "a", "N">> -> [ok |-> TRUE, value |-> F64("nan", neg, 0, 0)]
          [] OTHER -> ParseDecimal(rest, neg)

\* x > 0 and x is neither an infinity nor NaN
PositiveFinite(x) == x.kind = "num" /\ ~x.neg /\ x.mant > 0

(***************************************************************************)
(* deserialize::to_datetime: Utc.datetime_from_str(s, DATETIME_FORMAT),    *)
(* the format being "%Y-%m-%d %H:%M:%S".                                   *)
(***************************************************************************)
DateTime(y, mo, d, h, mi, s) ==
    [year |-> y, month |-> mo, day |-> d, hour |-> h, minute |-> mi, second |-> s]

IsLeap(y) == (y % 4 = 0 /\ y % 100 # 0) \/ y % 400 = 0

DaysIn(mo, y) ==
    CASE mo \in {1, 3, 5, 7, 8, 10, 12} -> 31
      [] mo \in {4, 6, 9, 11} -> 30
      [] mo = 2 -> IF IsLeap(y) THEN 29 ELSE 28
      [] OTHER -> 0

to_datetime(s) ==
    LET shaped == /\ Len(s) = 19
                  /\ s[5] = "-" /\ s[8] = "-" /\ s[11] = " "
                  /\ s[14] = ":" /\ s[17] = ":"
                  /\ \A i \in (1..19) \ {5, 8, 11, 14, 17} : s[i] \in Digits
        y  == DigitsValue(SubSeq(s, 1, 4))
        mo == DigitsValue(SubSeq(s, 6, 7))
        d  == DigitsValue(SubSeq(s, 9, 10))
        h  == DigitsValue(SubSeq(s, 12, 13))
        mi == DigitsValue(SubSeq(s, 15, 16))
        se == DigitsValue(SubSeq(s, 18, 19))
    IN  IF shaped /\ mo \in 1..12 /\ d \in 1..DaysIn(mo, y)
           /\ h < 24 /\ mi < 60 /\ se < 60
        THEN [ok |-> TRUE, value |-> DateTime(y, mo, d, h, mi, se)]
        ELSE [ok |-> FALSE, value |-> DateTime(0, 0, 0, 0, 0, 0)]

(***************************************************************************)
(* Results.  Ok and Err are the two variants of Rust's Result; Pending is  *)
(* a slot of a call that holds nothing yet.                                *)
(***************************************************************************)
Ok(v) == [tag |-> "ok", value |-> v]

Err(e) == [tag |-> "err", err |-> e]

Pending == [tag |-> "pending"]

(***************************************************************************)
(* JSON documents.  A body is [json, envelope, fields]: json says whether  *)
(* the bytes are JSON at all, envelope is the single top-level key, and    *)
(* fields maps the keys of the object under it to JSON values.             *)
(***************************************************************************)
JString(s) == [type |-> "string", s |-> s]

JNumber(s) == [type |-> "number", s |-> s]

EnvelopeKey == "Realtime Currency Exchange Rate"

FromCodeKey == "1. From_Currency Code"

FromNameKey == "2. From_Currency Name"

ToCodeKey == "3. To_Currency Code"

ToNameKey == "4. To_Currency Name"

RateKey == "5. Exchange Rate"

LastRefreshedKey == "6. Last Refreshed"

TimeZoneKey == "7. Time Zone"

FieldKeys ==
    {FromCodeKey, FromNameKey, ToCodeKey, ToNameKey, RateKey, LastRefreshedKey,
     TimeZoneKey}

\* struct RealtimeExchangeRate, filled by serde from the object under the envelope
RealtimeExchangeRate(f) ==
    [from_code      |-> f[FromCodeKey].s,
     from_name      |-> f[FromNameKey].s,
     to_code        |-> f[ToCodeKey].s,
     to_name        |-> f[ToNameKey].s,
     rate           |-> from_str(f[RateKey].s).value,
     last_refreshed |-> to_datetime(f[LastRefreshedKey].s).value,
     time_zone      |-> f[TimeZoneKey].s]

\* serde_json::from_reader::<ExchangeRateHelper>: every field present and a
\* JSON string, the rate and the date going through their deserialize_with
Deserialize(doc) ==
    IF /\ doc.json
       /\ doc.envelope = EnvelopeKey
       /\ FieldKeys \subseteq DOMAIN doc.fields
       /\ \A k \in FieldKeys : doc.fields[k].type = "string"
       /\ from_str(doc.fields[RateKey].s).ok
       /\ to_datetime(doc.fields[LastRefreshedKey].s).ok
    THEN Ok(RealtimeExchangeRate(doc.fields))
    ELSE Err([kind |-> "serde_json", msg |-> <<>>])

UTC == <<"U", "T", "C">>

UnsupportedPrefix ==
    <<"u", "n", "s", "u", "p", "p", "o", "r", "t", "e", "d", " ",
      "t", "i", "m", "e", " ", "z", "o", "n", "e", ":", " ">>

\* format_err!("unsupported time zone: {}", time_zone)
UnsupportedTimeZone(time_zone) ==
    [kind |-> "message", msg |-> UnsupportedPrefix \o time_zone]

IsUTCByPrefix(time_zone) ==
    Len(time_zone) >= 3 /\ SubSeq(time_zone, 1, 3) = UTC

\* helper.data.time_zone != "UTC", negated
IsUTC(time_zone) == time_zone = UTC

Currency(name, code) == [name |-> name, code |-> code]

ExchangeRateSwapped(data) ==
    [from |-> Currency(data.to_name, data.from_code),
     to   |-> Currency(data.from_name, data.to_code),
     rate |-> data.rate,
     date |-> data.last_refreshed]

\* the ExchangeRate literal of parse
ExchangeRate(data) ==
    [from |-> Currency(data.from_name, data.from_code),
     to   |-> Currency(data.to_name, data.to_code),
     rate |-> data.rate,
     date |-> data.last_refreshed]

\* exchange_rate::parser::parse
parse(doc) ==
    LET helper == Deserialize(doc)
    IN  IF helper.tag = "err" THEN helper
        ELSE IF ~IsUTC(helper.value.time_zone)
             THEN Err(UnsupportedTimeZone(helper.value.time_zone))
        ELSE Ok(ExchangeRate(helper.value))

(***************************************************************************)
(* time_series: the Function variants, their upstream tokens, the interval *)
(* tokens and the time-series parser.                                      *)
(***************************************************************************)
Intervals == {"Min1", "Min5", "Min15", "Min30", "Min60"}

IntraDay(interval) == [variant |-> "IntraDay", interval |-> interval]

Daily == [variant |-> "Daily"]

Weekly == [variant |-> "Weekly"]

Monthly == [variant |-> "Monthly"]

Functions == {IntraDay(i) : i \in Intervals} \cup {Daily, Weekly, Monthly}

\* IntradayInterval's to_string
IntervalToString(interval) ==
    CASE interval = "Min1" -> "1min"
      [] interval = "Min5" -> "5min"
      [] interval = "Min15" -> "15min"
      [] interval = "Min30" -> "30min"
      [] interval = "Min60" -> "60min"

\* function.into(): the upstream token of a Function
FunctionToken(function) ==
    CASE function.variant = "IntraDay" -> "TIME_SERIES_INTRADAY"
      [] function.variant = "Daily" -> "TIME_SERIES_DAILY"
      [] function.variant = "Weekly" -> "TIME_SERIES_WEEKLY"
      [] function.variant = "Monthly" -> "TIME_SERIES_MONTHLY"

\* the envelope key of the response to a Function
TimeSeriesEnvelope(function) ==
    CASE function.variant = "IntraDay" ->
             "Time Series (" \o IntervalToString(function.interval) \o ")"
      [] function.variant = "Daily" -> "Time Series (Daily)"
      [] function.variant = "Weekly" -> "Weekly Time Series"
      [] function.variant = "Monthly" -> "Monthly Time Series"

\* time_series::parser::parse(function, reader)
time_series_parse(function, doc) ==
    IF doc.json /\ doc.envelope = TimeSeriesEnvelope(function)
    THEN Ok([function |-> function, entries |-> doc.fields])
    ELSE Err([kind |-> "serde_json", msg |-> <<>>])

(***************************************************************************)
(* error::Error and the conversions the ? operator applies.                *)
(***************************************************************************)
TransportError == [kind |-> "TransportError"]

ServerError(code) == [kind |-> "ServerError", code |-> code]

DeserializationError == [kind |-> "DeserializationError"]

ValidationError(msg) == [kind |-> "ValidationError", msg |-> msg]

ReqwestError == [kind |-> "reqwest"]

\* From<reqwest::Error> for Error
FromReqwest(e) == TransportError

\* From<failure::Error> for Error
FromFailure(e) ==
    IF e.kind = "serde_json" THEN DeserializationError ELSE ValidationError(e.msg)

\* r? on a parser's result
Question(r) == IF r.tag = "err" THEN Err(FromFailure(r.err)) ELSE r

(***************************************************************************)
(* api: the request builder.                                               *)
(***************************************************************************)
ApiKey == "demo"

APIRequestBuilder_new(key) == [key |-> key]

\* APIRequestBuilder::create(function, params)
create(builder, function, params) ==
    [query |-> <<<<"function", function>>>> \o params \o <<<<"apikey", builder.key>>>>]

HasParam(req, key) == \E i \in 1..Len(req.query) : req.query[i][1] = key

\* the value under a key that occurs exactly once
Param(req, key) ==
    LET i == CHOOSE j \in 1..Len(req.query) : req.query[j][1] = key
    IN  req.query[i][2]

ParamCount(req, key) == Cardinality({i \in 1..Len(req.query) : req.query[i][1] = key})

(***************************************************************************)
(* Client.                                                                 *)
(***************************************************************************)
Client_new(key) == [builder |-> APIRequestBuilder_new(key), client |-> "reqwest::Client"]

get_time_series_intraday(symbol, interval) ==
    [method |-> "get_time_series", function |-> IntraDay(interval), symbol |-> symbol]

get_time_series_daily(symbol) ==
    [method |-> "get_time_series", function |-> Daily, symbol |-> symbol]

get_time_series_weekly(symbol) ==
    [method |-> "get_time_series", function |-> Weekly, symbol |-> symbol]

get_time_series_monthly(symbol) ==
    [method |-> "get_time_series", function |-> Monthly, symbol |-> symbol]

get_exchange_rate(from_currency_code, to_currency_code) ==
    [method |-> "get_exchange_rate", from |-> from_currency_code,
     to |-> to_currency_code]

ExchangeRateFunction == "CURRENCY_EXCHANGE_RATE"

ExchangeRateParamsSwapped(from_currency_code, to_currency_code) ==
    <<<<"from_currency", to_currency_code>>, <<"to_currency", from_currency_code>>>>

\* the params vector of get_exchange_rate
ExchangeRateParams(from_currency_code, to_currency_code) ==
    <<<<"from_currency", from_currency_code>>, <<"to_currency", to_currency_code>>>>

TimeSeriesParamsAlwaysInterval(function, symbol) ==
    <<<<"symbol", symbol>>,
      <<"interval", IF function.variant = "IntraDay"
                    THEN IntervalToString(function.interval) ELSE "1min">>>>

\* the params vector of get_time_series
TimeSeriesParams(function, symbol) ==
    <<<<"symbol", symbol>>>> \o
    (IF function.variant = "IntraDay"
     THEN <<<<"interval", IntervalToString(function.interval)>>>>
     ELSE <<>>)

\* the request a call builds from its arguments
BuildRequest(cl, a) ==
    IF a.method = "get_exchange_rate"
    THEN create(cl.builder, ExchangeRateFunction, ExchangeRateParams(a.from, a.to))
    ELSE create(cl.builder, FunctionToken(a.function),
                TimeSeriesParams(a.function, a.symbol))

\* the parser a call hands the body to
ParseBody(a, doc) ==
    IF a.method = "get_exchange_rate" THEN parse(doc)
    ELSE time_series_parse(a.function, doc)

StatusOK == 200

StatusCheckGeneric(status) ==
    IF status # StatusOK THEN Err(TransportError) ELSE Ok(status)

StatusCheckAny2xx(status) ==
    IF status < 200 \/ status > 299 THEN Err(ServerError(status)) ELSE Ok(status)

\* api_call's check of response.status()
StatusCheck(status) ==
    IF status # StatusOK THEN Err(ServerError(status)) ELSE Ok(status)

(***************************************************************************)
(* The environment: what callers pass and what the HTTP server answers.    *)
(***************************************************************************)
EUR == <<"E", "U", "R">>

USD == <<"U", "S", "D">>

Euro == <<"E", "u", "r", "o">>

UnitedStatesDollar ==
    <<"U", "n", "i", "t", "e", "d", " ", "S", "t", "a", "t", "e", "s", " ",
      "D", "o", "l", "l", "a", "r">>

FixtureRate == <<"1", ".", "1", "6", "6", "6", "5", "0", "1", "4">>

FixtureDate ==
    <<"2", "0", "1", "8", "-", "0", "6", "-", "2", "3", " ",
      "1", "0", ":", "2", "7", ":", "4", "9">>

RateStrings ==
    {FixtureRate, <<"2", ".", "5", "0">>, <<"0">>, <<"-", "0", ".", "0">>,
     <<"-", "1", ".", "5">>, <<"i", "n", "f">>, <<"-", "i", "n", "f">>,
     <<"N", "a", "N">>, <<"a", "b", "c">>, <<"1", ".", "2", ".", "3">>, <<>>}

DateStrings ==
    {FixtureDate,
     <<"2", "0", "1", "8", "-", "0", "2", "-", "3", "0", " ",
       "1", "0", ":", "2", "7", ":", "4", "9">>,
     <<"2", "0", "1", "8", "-", "0", "6", "-", "2", "3", "T",
       "1", "0", ":", "2", "7", ":", "4", "9">>}

TimeZones ==
    {UTC, <<"u", "t", "c">>, <<"U", "T", "C", "+", "1">>, <<"E", "S", "T">>,
     <<"U", "T">>, <<>>}

CurrencyPairs ==
    {<<EUR, Euro, USD, UnitedStatesDollar>>, <<USD, UnitedStatesDollar, EUR, Euro>>}

ExchangeRateFields(pair, rate, date, tz) ==
    FromCodeKey :> JString(pair[1]) @@ FromNameKey :> JString(pair[2]) @@
    ToCodeKey :> JString(pair[3]) @@ ToNameKey :> JString(pair[4]) @@
    RateKey :> JString(rate) @@ LastRefreshedKey :> JString(date) @@
    TimeZoneKey :> JString(tz)

ExchangeRateDoc(pair, rate, date, tz) ==
    [json |-> TRUE, envelope |-> EnvelopeKey,
     fields |-> ExchangeRateFields(pair, rate, date, tz)]

\* tests/json/currency_exchange_rate.json
FixtureDoc ==
    ExchangeRateDoc(<<EUR, Euro, USD, UnitedStatesDollar>>, FixtureRate, FixtureDate, UTC)

\* documents that hold the seven fields, each a JSON string
SchemaDocs ==
    {ExchangeRateDoc(p, r, d, z) :
        p \in CurrencyPairs, r \in RateStrings, d \in DateStrings, z \in TimeZones}

Without(doc, key) ==
    [doc EXCEPT !.fields = [k \in (DOMAIN doc.fields) \ {key} |-> doc.fields[k]]]

Mistyped(doc, key) ==
    [doc EXCEPT !.fields[key] = JNumber(doc.fields[key].s)]

\* documents that do not match the schema although the text in them is fine
MismatchDocs ==
    {Without(FixtureDoc, k) : k \in FieldKeys}
    \cup {Mistyped(FixtureDoc, k) : k \in FieldKeys}
    \cup {[FixtureDoc EXCEPT !.envelope = "Error Message"],
          [FixtureDoc EXCEPT !.json = FALSE]}

TimeSeriesDocs ==
    {[json |-> TRUE, envelope |-> TimeSeriesEnvelope(f),
      fields |-> ("2018-06-22" :> JString(FixtureRate))] : f \in Functions}

Documents == SchemaDocs \cup MismatchDocs \cup TimeSeriesDocs

Symbols == {"IBM", "MSFT"}

CurrencyCodes == {"EUR", "USD"}

AllArgs ==
    {get_time_series_intraday(s, i) : s \in Symbols, i \in Intervals}
    \cup {get_time_series_daily(s) : s \in Symbols}
    \cup {get_time_series_weekly(s) : s \in Symbols}
    \cup {get_time_series_monthly(s) : s \in Symbols}
    \cup {get_exchange_rate(f, t) : f \in CurrencyCodes, t \in CurrencyCodes}

AllStatuses == {200, 201, 204, 301, 304, 400, 404, 429, 500, 503}

\* the smaller environment of the concurrent specification
FewArgs ==
    {get_time_series_intraday("IBM", "Min5"), get_time_series_daily("MSFT"),
     get_exchange_rate("EUR", "USD")}

FewStatuses == {200, 503}

FewDocuments ==
    {FixtureDoc,
     ExchangeRateDoc(<<EUR, Euro, USD, UnitedStatesDollar>>, FixtureRate, FixtureDate,
                     <<"E", "S", "T">>),
     [json |-> TRUE, envelope |-> TimeSeriesEnvelope(Daily),
      fields |-> ("2018-06-22" :> JString(FixtureRate))]}

(***************************************************************************)
(* The state machine.  pc[c] is the stage call c is about to run; trace[c] *)
(* lists the stages it ran; sent[c] counts the HTTP requests it issued.    *)
(***************************************************************************)
Init ==
    /\ client = Client_new(ApiKey)
    /\ pc = [c \in Calls |-> "idle"]
    /\ args = [c \in Calls |-> Pending]
    /\ request = [c \in Calls |-> Pending]
    /\ sent = [c \in Calls |-> 0]
    /\ response = [c \in Calls |-> Pending]
    /\ body = [c \in Calls |-> Pending]
    /\ parsed = [c \in Calls |-> Pending]
    /\ result = [c \in Calls |-> Pending]
    /\ trace = [c \in Calls |-> <<>>]

\* the value kept in a slot of the Client that the first call to fill it owns
SharedSlot(v, c) == IF v[1] # Pending THEN v[1] ELSE v[c]

\* a value a call keeps in a local variable of its own future
Local(v, c) == v[c]

RetryAfterTransportFailure == "execute"

\* where the ? on execute(...).await leaves the call when the transport fails
AfterTransportFailure == "done"

\* a public method is called: the params are collected and the request built
Call(c, Args) ==
    /\ pc[c] = "idle"
    /\ \E a \in Args :
         /\ args' = [args EXCEPT ![c] = a]
         /\ request' = [request EXCEPT ![c] = BuildRequest(client, a)]
    /\ pc' = [pc EXCEPT ![c] = "execute"]
    /\ trace' = [trace EXCEPT ![c] = Append(@, "build")]
    /\ UNCHANGED <<client, sent, response, body, parsed, result>>

\* api_call: self.client.execute(request.into()).await?
Execute(c, Statuses) ==
    /\ pc[c] = "execute"
    /\ sent' = [sent EXCEPT ![c] = @ + 1]
    /\ trace' = [trace EXCEPT ![c] = Append(@, "execute")]
    /\ \E r \in {Err(ReqwestError)} \cup {Ok([status |-> s]) : s \in Statuses} :
         /\ response' = [response EXCEPT ![c] = r]
         /\ IF r.tag = "err"
            THEN /\ result' = [result EXCEPT ![c] = Err(FromReqwest(r.err))]
                 /\ pc' = [pc EXCEPT ![c] = AfterTransportFailure]
            ELSE /\ pc' = [pc EXCEPT ![c] = "status"]
                 /\ UNCHANGED result
    /\ UNCHANGED <<client, args, request, body, parsed>>

\* api_call: if status != StatusCode::OK { return Err(ServerError(..)) }
CheckStatus(c) ==
    /\ pc[c] = "status"
    /\ trace' = [trace EXCEPT ![c] = Append(@, "status")]
    /\ LET checked == StatusCheck(Local(response, c).value.status)
       IN  IF checked.tag = "err"
           THEN /\ result' = [result EXCEPT ![c] = checked]
                /\ pc' = [pc EXCEPT ![c] = "done"]
           ELSE /\ pc' = [pc EXCEPT ![c] = "read"]
                /\ UNCHANGED result
    /\ UNCHANGED <<client, args, request, sent, response, body, parsed>>

\* api_call: Cursor::new(response.bytes().await?)
ReadBody(c, Bodies) ==
    /\ pc[c] = "read"
    /\ trace' = [trace EXCEPT ![c] = Append(@, "read")]
    /\ \E b \in {Err(ReqwestError)} \cup {Ok(d) : d \in Bodies} :
         /\ body' = [body EXCEPT ![c] = b]
         /\ IF b.tag = "err"
            THEN /\ result' = [result EXCEPT ![c] = Err(FromReqwest(b.err))]
                 /\ pc' = [pc EXCEPT ![c] = "done"]
            ELSE /\ pc' = [pc EXCEPT ![c] = "parse"]
                 /\ UNCHANGED result
    /\ UNCHANGED <<client, args, request, sent, response, parsed>>

\* the parser runs on the bytes read and the call returns
Parse(c) ==
    /\ pc[c] = "parse"
    /\ trace' = [trace EXCEPT ![c] = Append(@, "parse")]
    /\ LET r == ParseBody(Local(args, c), Local(body, c).value)
       IN  /\ parsed' = [parsed EXCEPT ![c] = r]
           /\ result' = [result EXCEPT ![c] = Question(r)]
    /\ pc' = [pc EXCEPT ![c] = "done"]
    /\ UNCHANGED <<client, args, request, sent, response, body>>

\* several calls in flight on the one Client, their stages interleaved
Next ==
    \E c \in Calls :
        \/ Call(c, FewArgs)
        \/ Execute(c, FewStatuses)
        \/ CheckStatus(c)
        \/ ReadBody(c, FewDocuments)
        \/ Parse(c)

Spec == Init /\ [][Next]_vars

\* one call, against every argument, status and document of the environment
NextOne ==
    \/ Call(1, AllArgs)
    \/ Execute(1, AllStatuses)
    \/ CheckStatus(1)
    \/ ReadBody(1, Documents)
    \/ Parse(1)

SpecOne == Init /\ [][NextOne]_vars

(***************************************************************************)
(* Properties.                                                             *)
(***************************************************************************)
\* call c has collected its arguments and built its request
Built(c) == pc[c] # "idle"

IsExchangeRateCall(c) == Built(c) /\ args[c].method = "get_exchange_rate"

\* call c handed a document to the exchange-rate parser and the parser returned
ParserRan(c) ==
    /\ IsExchangeRateCall(c)
    /\ body[c].tag = "ok"
    /\ parsed[c].tag # "pending"

TimeZoneOf(doc) == doc.fields[TimeZoneKey].s

\* the document matches the schema: the envelope and seven JSON strings
MatchesSchema(doc) ==
    /\ doc.json
    /\ doc.envelope = EnvelopeKey
    /\ FieldKeys \subseteq DOMAIN doc.fields
    /\ \A k \in FieldKeys : doc.fields[k].type = "string"

\* ... and its rate and date are text that the coercions accept
WellFormed(doc) ==
    /\ MatchesSchema(doc)
    /\ from_str(doc.fields[RateKey].s).ok
    /\ to_datetime(doc.fields[LastRefreshedKey].s).ok

\* C1: a document that deserializes and whose time zone is not exactly "UTC"
\* makes parse return an error whose message contains the zone as reported;
\* hence every ExchangeRate returned came from a document whose zone is "UTC".
C1_NonUtcRejected ==
    \A c \in Calls :
        ParserRan(c) =>
            LET doc == body[c].value
            IN  /\ (WellFormed(doc) /\ TimeZoneOf(doc) # <<"U", "T", "C">>) =>
                       /\ parsed[c].tag = "err"
                       /\ parsed[c].err.kind = "message"
                       /\ Contains(parsed[c].err.msg, TimeZoneOf(doc))
                /\ parsed[c].tag = "ok" => TimeZoneOf(doc) = <<"U", "T", "C">>

C1_Witness ==
    \E c \in Calls :
        /\ ParserRan(c)
        /\ WellFormed(body[c].value)
        /\ TimeZoneOf(body[c].value) = <<"U", "T", "C", "+", "1">>
        /\ parsed[c].tag = "err"
        /\ parsed[c].err.msg = UnsupportedPrefix \o <<"U", "T", "C", "+", "1">>

\* C2: once the status of a response has been checked, a status other than
\* 200 has ended the call with ServerError carrying exactly that status, which
\* is not the transport error of a failed execute or body read; the body is
\* read only when the status is 200.
C2_NonOkIsServerError ==
    \A c \in Calls :
        /\ (response[c].tag = "ok" /\ pc[c] # "status"
            /\ response[c].value.status # 200) =>
               /\ pc[c] = "done"
               /\ result[c] = [tag |-> "err",
                               err |-> [kind |-> "ServerError",
                                        code |-> response[c].value.status]]
               /\ result[c].err # FromReqwest(ReqwestError)
               /\ body[c].tag = "pending"
        /\ (pc[c] = "done" /\ (response[c].tag = "err" \/ body[c].tag = "err")) =>
               /\ result[c].tag = "err"
               /\ result[c].err.kind # "ServerError"
        /\ body[c].tag # "pending" =>
               response[c].tag = "ok" /\ response[c].value.status = 200

C2_Witness ==
    \E c \in Calls :
        /\ pc[c] = "done"
        /\ response[c].tag = "ok"
        /\ response[c].value.status = 429
        /\ result[c] = Err(ServerError(429))

\* C3: on a well-formed document with time zone "UTC" parse succeeds and
\* each field of the result is the field of the document it is named after:
\* from.code is field 1, from.name field 2, to.code field 3, to.name field 4,
\* rate the number field 5 denotes, date the timestamp field 6 denotes; the
\* EUR/USD fixture yields {Euro, EUR}, {United States Dollar, USD},
\* 1.16665014 and 2018-06-23 10:27:49.
C3_FieldMapping ==
    \A c \in Calls :
        (ParserRan(c) /\ WellFormed(body[c].value)
         /\ TimeZoneOf(body[c].value) = <<"U", "T", "C">>) =>
            LET f == body[c].value.fields
                v == parsed[c].value
            IN  /\ parsed[c].tag = "ok"
                /\ v.from.code = f[FromCodeKey].s
                /\ v.from.name = f[FromNameKey].s
                /\ v.to.code = f[ToCodeKey].s
                /\ v.to.name = f[ToNameKey].s
                /\ v.rate = from_str(f[RateKey].s).value
                /\ v.date = to_datetime(f[LastRefreshedKey].s).value
                /\ result[c] = parsed[c]
                /\ body[c].value = FixtureDoc =>
                       v = [from |-> [name |-> Euro, code |-> EUR],
                            to   |-> [name |-> UnitedStatesDollar, code |-> USD],
                            rate |-> [kind |-> "num", neg |-> FALSE,
                                      mant |-> 116665014, exp |-> 8],
                            date |-> [year |-> 2018, month |-> 6, day |-> 23,
                                      hour |-> 10, minute |-> 27, second |-> 49]]

C3_Witness ==
    \E c \in Calls :
        /\ ParserRan(c)
        /\ body[c].value = FixtureDoc
        /\ parsed[c].tag = "ok"
        /\ parsed[c].value.from.code # parsed[c].value.to.code

\* the upstream token of the query a call makes
ExpectedToken(a) ==
    IF a.method = "get_exchange_rate" THEN "CURRENCY_EXCHANGE_RATE"
    ELSE CASE a.function.variant = "IntraDay" -> "TIME_SERIES_INTRADAY"
           [] a.function.variant = "Daily" -> "TIME_SERIES_DAILY"
           [] a.function.variant = "Weekly" -> "TIME_SERIES_WEEKLY"
           [] a.function.variant = "Monthly" -> "TIME_SERIES_MONTHLY"

IsIntraDay(a) == a.method = "get_time_series" /\ a.function.variant = "IntraDay"

\* C4: the request of each of the five queries carries that query's literal
\* function token, and it carries an interval parameter, holding the chosen
\* interval's token, if and only if the query is the intraday one.
C4_FunctionTokens ==
    \A c \in Calls :
        Built(c) =>
            LET a == args[c]
                r == request[c]
            IN  /\ ParamCount(r, "function") = 1
                /\ Param(r, "function") = ExpectedToken(a)
                /\ HasParam(r, "interval") <=> IsIntraDay(a)
                /\ IsIntraDay(a) =>
                       /\ ParamCount(r, "interval") = 1
                       /\ <<a.function.interval, Param(r, "interval")>> \in
                              {<<"Min1", "1min">>, <<"Min5", "5min">>,
                               <<"Min15", "15min">>, <<"Min30", "30min">>,
                               <<"Min60", "60min">>}

C4_Witness ==
    /\ \E c \in Calls :
          /\ Built(c)
          /\ args[c] = get_time_series_intraday("IBM", "Min15")
          /\ Param(request[c], "interval") = "15min"
          /\ Param(request[c], "function") = "TIME_SERIES_INTRADAY"

\* C5: reading back the parameters of a built request recovers what the caller
\* passed: a time-series request holds the symbol under symbol and the token
\* of its Function; an exchange-rate request holds from under from_currency
\* and to under to_currency, verbatim and not swapped.
C5_ParamsRoundTrip ==
    \A c \in Calls :
        Built(c) =>
            LET a == args[c]
                r == request[c]
            IN  IF a.method = "get_time_series"
                THEN /\ ParamCount(r, "symbol") = 1
                     /\ Param(r, "symbol") = a.symbol
                     /\ Param(r, "function") = FunctionToken(a.function)
                     /\ \A f \in Functions :
                            FunctionToken(f) = Param(r, "function") =>
                                f.variant = a.function.variant
                ELSE /\ ParamCount(r, "from_currency") = 1
                     /\ ParamCount(r, "to_currency") = 1
                     /\ Param(r, "from_currency") = a.from
                     /\ Param(r, "to_currency") = a.to

C5_Witness ==
    \E c \in Calls :
        /\ Built(c)
        /\ args[c] = get_exchange_rate("EUR", "USD")
        /\ Param(request[c], "from_currency") = "EUR"
        /\ Param(request[c], "to_currency") = "USD"

\* C6: a call issues exactly one HTTP request over its lifetime: never more
\* than one, whatever fails, and exactly one by the time it has passed the
\* execute stage or has completed.
C6_OneRequestPerCall ==
    \A c \in Calls :
        /\ sent[c] <= 1
        /\ pc[c] \in {"idle", "execute"} => sent[c] = 0
        /\ pc[c] \in {"status", "read", "parse", "done"} => sent[c] = 1

C6_Witness ==
    \E c \in Calls :
        /\ pc[c] = "done"
        /\ response[c].tag = "err"
        /\ result[c] = Err(TransportError)
        /\ sent[c] = 1

\* the error a stage reports when it is the stage that fails
StageError(stage, e) ==
    CASE stage = "execute" -> e = [kind |-> "TransportError"]
      [] stage = "status" -> e.kind = "ServerError"
      [] stage = "read" -> e = [kind |-> "TransportError"]
      [] stage = "parse" -> e.kind \in {"DeserializationError", "ValidationError"}
      [] OTHER -> FALSE

\* C7: the stages of a call run in the order build, execute, status, read,
\* parse; the parser runs only after status 200 and a body read in full; a
\* call has no result before it ends and then has either a complete value,
\* all stages having run, or the error of the last stage it ran.
C7_StagesInOrder ==
    \A c \in Calls :
        LET n == Len(trace[c])
        IN  /\ n <= 5
            /\ trace[c] = SubSeq(<<"build", "execute", "status", "read", "parse">>, 1, n)
            /\ n = 5 =>
                   /\ response[c].tag = "ok"
                   /\ response[c].value.status = 200
                   /\ body[c].tag = "ok"
            /\ n >= 4 => response[c].tag = "ok" /\ response[c].value.status = 200
            /\ n >= 3 => response[c].tag = "ok"
            /\ pc[c] # "done" => result[c].tag = "pending"
            /\ pc[c] = "done" =>
                   /\ result[c].tag \in {"ok", "err"}
                   /\ result[c].tag = "ok" =>
                          /\ n = 5
                          /\ DOMAIN result[c] = {"tag", "value"}
                          /\ IsExchangeRateCall(c) =>
                                 DOMAIN result[c].value = {"from", "to", "rate", "date"}
                   /\ result[c].tag = "err" =>
                          /\ DOMAIN result[c] = {"tag", "err"}
                          /\ n >= 2
                          /\ StageError(trace[c][n], result[c].err)

C7_Witness ==
    \E c \in Calls :
        /\ pc[c] = "done"
        /\ trace[c] = <<"build", "execute", "status">>
        /\ result[c].tag = "err"
        /\ result[c].err.kind = "ServerError"

\* C8: every ExchangeRate that parse returns has a positive finite rate.
C8_RatePositiveFinite ==
    \A c \in Calls :
        (ParserRan(c) /\ parsed[c].tag = "ok") => PositiveFinite(parsed[c].value.rate)

\* the result call c has when it runs alone against the same answers
RunAlone(a, resp, bd) ==
    IF resp.tag # "ok" THEN Err(FromReqwest(ReqwestError))
    ELSE IF resp.value.status # StatusOK THEN Err(ServerError(resp.value.status))
    ELSE IF bd.tag # "ok" THEN Err(FromReqwest(ReqwestError))
    ELSE Question(ParseBody(a, bd.value))

\* C9: under every interleaving of concurrent calls, each call's request and
\* result are those it has when run alone with the same arguments against the
\* same HTTP answers, and the Client's configuration never changes.
C9_CallsIndependent ==
    /\ client = [builder |-> [key |-> ApiKey], client |-> "reqwest::Client"]
    /\ \A c \in Calls :
          /\ Built(c) =>
                 request[c] = BuildRequest(Client_new(ApiKey), args[c])
          /\ pc[c] = "done" =>
                 result[c] = RunAlone(args[c], response[c], body[c])

C9_Witness ==
    \E c, d \in Calls :
        /\ c # d
        /\ pc[c] = "done" /\ pc[d] = "done"
        /\ args[c] # args[d]
        /\ result[c].tag = "ok"
        /\ result[d].tag = "err"
        /\ result[d].err.kind = "ServerError"

\* the rate text of a document is no number at all
RateUnparseable(doc) == ~from_str(doc.fields[RateKey].s).ok

\* C10: an exchange-rate call whose body does not match the schema fails as
\* DeserializationError; one whose body matches the schema but has a non-UTC
\* time zone or an unparseable rate (the date being a valid one) fails as
\* ValidationError; neither fails as TransportError or ServerError.
C10_FailureKinds ==
    \A c \in Calls :
        (ParserRan(c) /\ pc[c] = "done") =>
            LET doc == body[c].value
            IN  /\ ~MatchesSchema(doc) =>
                       /\ result[c].tag = "err"
                       /\ result[c].err.kind = "DeserializationError"
                /\ (MatchesSchema(doc)
                    /\ to_datetime(doc.fields[LastRefreshedKey].s).ok
                    /\ (TimeZoneOf(doc) # UTC \/ RateUnparseable(doc))) =>
                       /\ result[c].tag = "err"
                       /\ result[c].err.kind = "ValidationError"
                /\ result[c].tag = "err" =>
                       result[c].err.kind \notin {"TransportError", "ServerError"}

====
